---- MODULE Spec2Model ----
(***************************************************************************)
(* todo-threader: a one-shot command line tool that relays a task command  *)
(* to a display device over a serial port.  The model follows src/main.rs: *)
(* the parsed arguments, the opening of the port, the dispatch in main,    *)
(* the retry loop around next / swap / following / add, and the test and   *)
(* raw probes.  Byte strings are sequences of one-character strings.       *)
(***************************************************************************)
EXTENDS Integers, Sequences, FiniteSets, TLC

VARIABLES
    args,      \* clap::ArgMatches: what the command line held
    pc,        \* position of main
    i,         \* loop variable of `for i in 0..RETRIES`
    num,       \* the last integer drawn by rng.gen_range (-1: none yet)
    color,     \* the color handed to following / add in this attempt
    val,       \* result of the last call of next / swap / following / add
    wres,      \* result of the last device.write
    rres,      \* result of device.read in the call that wrote last (NoResult
               \* until that call has read)
    written,   \* every byte string handed to device.write, in order
    okwrites,  \* number of device.write calls that returned Ok
    reads,     \* number of device.read calls
    results,   \* the value of `val` of every attempt of the retry loop
    log,       \* the records the logger let through, in order
    device,    \* the serial port: opened or not, and its DTR / RTS lines
    pending,   \* commands the device has received and not yet answered, each
               \* named by the number of the write that carried it
    rxbuf,     \* acknowledgment bytes waiting in the port's receive buffer,
               \* each named by the write it answers
    ackfor     \* the write answered by the byte the last read took (0: none)

\* The serial link as the device process sees it.
link == <<pending, rxbuf, ackfor>>

vars == <<args, pc, i, num, color, val, wres, rres, written, okwrites, reads,
          results, log, device, pending, rxbuf, ackfor>>

----------------------------------------------------------------------------
(* Bounds and sample inputs *)

\* device.write may accept fewer bytes than it was given: the short counts
\* 0..MaxShortWrite are modelled beside the full length.
MaxShortWrite == 0

\* Tasks and raw payloads given on the command line.
Tasks == { <<"a">>, <<"#", ";">> }

Payloads == { <<"p", "i", "n", "g">>, <<>> }

\* Explicit values of --color: 6 hex digits with and without '#', and one
\* text that is not a color (the program does not validate it).
Colors == { <<"1", "2", "A", "b", "9", "f">>,
            <<"#", "1", "2", "A", "b", "9", "f">>,
            <<"#", "#", "0">> }

\* The integers the random draw is tried with: 0xABC (3 hex digits), and the
\* two values at the upper end, 0xFFFFFE and 0xFFFFFF.
DrawSamples == { 2748, 16777214, 16777215 }

\* Causes an I/O call can fail with (std::io::ErrorKind).
IoErrors == { "TimedOut", "BrokenPipe" }

\* The acknowledgment byte the device sends (its value is never inspected).
AckByte == 6

----------------------------------------------------------------------------
(* Program constants and pure helpers *)

\* RETRIES off by one
RETRIES_six == 5 + 1

RETRIES == 5

DefaultColor == <<"#", "F", "F", "F", "F", "F", "F">>

ArgNames == { "Debug", "Test", "Raw", "Next", "Following", "Swap", "Add",
              "Color", "Random" }

\* conflicts_with / conflicts_with_all as declared, one pair per declaration.
DeclaredConflicts ==
    ({"Test"} \X {"Next", "Following", "Add"})
    \cup ({"Raw"} \X {"Test", "Next", "Following", "Add"})
    \cup ({"Next"} \X {"Test", "Following", "Add"})
    \cup ({"Following"} \X {"Test", "Next", "Add"})
    \cup ({"Swap"} \X {"Test", "Next", "Add", "Following"})
    \cup ({"Add"} \X {"Test", "Next", "Following"})
    \cup ({"Random"} \X {"Color"})

\* The sets of arguments clap lets appear together on the command line: no
\* declared conflict has both of its sides present (a conflict is two-way).
ValidPresent ==
    { p \in [ArgNames -> BOOLEAN] :
        \A c \in DeclaredConflicts : ~(p[c[1]] /\ p[c[2]]) }

\* The matches get_args can return: an option that is present carries its
\* value, and Color falls back to its default_value when it is not given.
get_args ==
    UNION { { [present |-> p,
               value |-> [Raw |-> r, Following |-> f, Add |-> a, Color |-> c]] :
                r \in (IF p["Raw"] THEN Payloads ELSE {<<>>}),
                f \in (IF p["Following"] THEN Tasks ELSE {<<>>}),
                a \in (IF p["Add"] THEN Tasks ELSE {<<>>}),
                c \in (IF p["Color"] THEN Colors ELSE {DefaultColor}) } :
            p \in ValidPresent }

is_present(name) == args.present[name]

value_of(name) == args.value[name]

\* LevelFilter: Debug lets every record through, Info all but debug records.
llvl == IF is_present("Debug") THEN "Debug" ELSE "Info"

Emit(l, records) ==
    l \o SelectSeq(records, LAMBDA r : r.level # "DEBUG" \/ llvl = "Debug")

Rec(level, msg, arg) == [level |-> level, msg |-> msg, arg |-> arg]

Ok(n) == [ok |-> TRUE, num |-> n, err |-> "none"]

Err(e) == [ok |-> FALSE, num |-> 0, err |-> e]

NoResult == [ok |-> FALSE, num |-> 0, err |-> "not called"]

\* Ok(()) of a Result<(), std::io::Error>
OkUnit == Ok(0)

\* Outcomes of device.write(data): Ok with the number of bytes accepted, or
\* an I/O error.
WriteResults(data) ==
    { Ok(n) : n \in { k \in 0..Len(data) :
                        k = Len(data) \/ k <= MaxShortWrite } }
    \cup { Err(e) : e \in IoErrors }

\* Outcomes of device.read(&mut [0u8; 1]): Ok(0), Ok(1), or an I/O error.
ReadResults == { Ok(0), Ok(1) } \cup { Err(e) : e \in IoErrors }

HexDigit(d) ==
    <<"0", "1", "2", "3", "4", "5", "6", "7", "8", "9",
      "A", "B", "C", "D", "E", "F">>[d + 1]

\* UpperHex with the format `{:o}`: octal digits
RECURSIVE UpperHex_octal(_)
UpperHex_octal(n) ==
    IF n < 8 THEN <<HexDigit(n)>>
    ELSE UpperHex_octal(n \div 8) \o <<HexDigit(n % 8)>>

\* format!("{:X}", n): uppercase hexadecimal, no padding.
RECURSIVE UpperHex(_)
UpperHex(n) ==
    IF n < 16 THEN <<HexDigit(n)>>
    ELSE UpperHex(n \div 16) \o <<HexDigit(n % 16)>>

\* format!("#{:X}", num)
FormatColor(n) == <<"#">> \o UpperHex(n)

\* rng.gen_range(low..high): the half-open range low <= n < high.
gen_range(low, high) == low..(high - 1)

\* StripHash without the strip_prefix: the color is embedded as given
StripHash_keep(c) == c

\* color.strip_prefix("#").unwrap_or(color)
StripHash(c) ==
    IF Len(c) >= 1 /\ c[1] = "#" THEN Tail(c) ELSE c

\* NextCommand with a line end appended
NextCommand_newline == <<"N", "X", "T", "\n">>

NextCommand == <<"N", "X", "T">>

SwapCommand == <<"S", "W", "P">>

PingCommand == <<"p", "i", "n", "g">>

\* format!("FLW{};{}", message, color.strip_prefix("#").unwrap_or(color))
FollowingCommand(message, c) ==
    <<"F", "L", "W">> \o message \o <<";">> \o StripHash(c)

\* format!("ADD{};{}", message, color.strip_prefix("#").unwrap_or(color))
AddCommand(message, c) ==
    <<"A", "D", "D">> \o message \o <<";">> \o StripHash(c)

----------------------------------------------------------------------------
(* Initial state: the arguments are parsed, nothing else has happened *)

Init ==
    /\ args \in get_args
    /\ pc = "open"
    /\ i = 0
    /\ num = -1
    /\ color = <<>>
    /\ val = NoResult
    /\ wres = NoResult
    /\ rres = NoResult
    /\ written = <<>>
    /\ okwrites = 0
    /\ reads = 0
    /\ results = <<>>
    /\ log = <<>>
    /\ device = [open |-> FALSE, dtr |-> "unset", rts |-> "unset"]
    /\ pending = <<>>
    /\ rxbuf = <<>>
    /\ ackfor = 0

----------------------------------------------------------------------------
(* The transport *)

\* device.write(data) returning r
DeviceWrite(data, r) ==
    /\ written' = Append(written, data)
    /\ wres' = r
    /\ rres' = NoResult
    /\ okwrites' = okwrites + (IF r.ok THEN 1 ELSE 0)

\* device.read(&mut read_buffer) returning r
DeviceRead(r) ==
    /\ rres' = r
    /\ reads' = reads + 1

\* read_buffer after a read that returned r: the byte read, else still 0
ReadBuffer(r) == IF r.ok /\ r.num = 1 THEN <<AckByte>> ELSE <<0>>

----------------------------------------------------------------------------
(* main, up to the dispatch *)

\* Open that goes on with the line setup although the port did not open
Open_goon ==
    /\ pc = "open"
    /\ \E opened \in BOOLEAN :
         /\ device' = [device EXCEPT !.open = opened]
         /\ pc' = "dtr"
    /\ UNCHANGED <<args, i, num, color, val, wres, rres, written, okwrites,
                   reads, results, log>>
    /\ UNCHANGED link

\* init_communication(..): the port opens, or main panics
Open ==
    /\ pc = "open"
    /\ \E opened \in BOOLEAN :
         IF opened
         THEN /\ device' = [device EXCEPT !.open = TRUE]
              /\ pc' = "dtr"
         ELSE /\ pc' = "panic"
              /\ UNCHANGED device
    /\ UNCHANGED <<args, i, num, color, val, wres, rres, written, okwrites,
                   reads, results, log>>
    /\ UNCHANGED link

\* device.write_data_terminal_ready(false).unwrap()
ClearDTR ==
    /\ pc = "dtr"
    /\ \E cleared \in BOOLEAN :
         IF cleared
         THEN /\ device' = [device EXCEPT !.dtr = "low"]
              /\ pc' = "rts"
         ELSE /\ pc' = "panic"
              /\ UNCHANGED device
    /\ UNCHANGED <<args, i, num, color, val, wres, rres, written, okwrites,
                   reads, results, log>>
    /\ UNCHANGED link

\* device.write_request_to_send(false).unwrap()
ClearRTS ==
    /\ pc = "rts"
    /\ \E cleared \in BOOLEAN :
         IF cleared
         THEN /\ device' = [device EXCEPT !.rts = "low"]
              /\ pc' = "dispatch"
         ELSE /\ pc' = "panic"
              /\ UNCHANGED device
    /\ UNCHANGED <<args, i, num, color, val, wres, rres, written, okwrites,
                   reads, results, log>>
    /\ UNCHANGED link

\* DispatchTarget with the mutating operations tested before Raw
DispatchTarget_loopfirst ==
    IF is_present("Test") THEN "test_write"
    ELSE IF is_present("Next") \/ is_present("Swap")
            \/ is_present("Following") \/ is_present("Add") THEN "loop"
    ELSE IF is_present("Raw") THEN "raw_write"
    ELSE "done"

\* The if / else-if chain of main that picks the operation.
DispatchTarget ==
    IF is_present("Test") THEN "test_write"
    ELSE IF is_present("Raw") THEN "raw_write"
    ELSE IF is_present("Next") \/ is_present("Swap")
            \/ is_present("Following") \/ is_present("Add") THEN "loop"
    ELSE "done"

Dispatch ==
    /\ pc = "dispatch"
    /\ pc' = DispatchTarget
    /\ i' = 0
    /\ UNCHANGED <<args, num, color, val, wres, rres, written, okwrites,
                   reads, results, log, device>>
    /\ UNCHANGED link

----------------------------------------------------------------------------
(* test and raw *)

\* test_write that gives up after a failed write instead of going on to read
test_write_giveup ==
    /\ pc = "test_write"
    /\ \E r \in WriteResults(PingCommand) :
         /\ DeviceWrite(PingCommand, r)
         /\ log' = Emit(log,
              IF r.ok
              THEN <<Rec("INFO", "Writing . . . . . [ OK ]", <<>>)>>
              ELSE <<Rec("ERROR", "Writing . . . . . [ FAILED ]", <<>>)>>)
         /\ pc' = IF r.ok THEN "test_read" ELSE "done"
    /\ UNCHANGED <<args, i, num, color, val, reads, results, device>>
    /\ UNCHANGED link

test_write ==
    /\ pc = "test_write"
    /\ \E r \in WriteResults(PingCommand) :
         /\ DeviceWrite(PingCommand, r)
         /\ log' = Emit(log,
              <<Rec("DEBUG", "Starting communication test...", <<>>),
                Rec("DEBUG", "Sending data to device...", <<>>)>>
              \o (IF r.ok
                  THEN <<Rec("DEBUG", "Successfully sent {} bytes to the device",
                             r.num),
                         Rec("INFO", "Writing . . . . . [ OK ]", <<>>)>>
                  ELSE <<Rec("INFO",
                             "Failed to sent data to the device! Reason: {}",
                             r.err),
                         Rec("ERROR", "Writing . . . . . [ FAILED ]", <<>>)>>)
              \o <<Rec("DEBUG", "Reading data from device...", <<>>)>>)
    /\ pc' = "test_read"
    /\ UNCHANGED <<args, i, num, color, val, reads, results, device>>
    /\ UNCHANGED link

test_read ==
    /\ pc = "test_read"
    /\ \E r \in ReadResults :
         /\ DeviceRead(r)
         /\ log' = Emit(log,
              (IF r.ok
               THEN <<Rec("DEBUG", "Successfully read {} bytes from the device",
                          r.num),
                      Rec("INFO", "Reading . . . . . [ OK ]", <<>>)>>
               ELSE <<Rec("INFO",
                          "Failed to read data from the device! Reason: {}",
                          r.err),
                      Rec("ERROR", "Reading . . . . . [ FAILED ]", <<>>)>>)
              \o <<Rec("DEBUG", "Communication test finished", <<>>)>>)
    /\ pc' = "done"
    /\ UNCHANGED <<args, i, num, color, val, wres, written, okwrites, results,
                   device>>
    /\ UNCHANGED link

raw_write ==
    /\ pc = "raw_write"
    /\ \E r \in WriteResults(value_of("Raw")) :
         /\ DeviceWrite(value_of("Raw"), r)
         /\ log' = Emit(log,
              IF r.ok
              THEN <<Rec("INFO", "Successfully sent {} bytes to the device",
                         r.num)>>
              ELSE <<Rec("ERROR",
                         "Failed to sent data to the device! Reason: {}",
                         r.err)>>)
    /\ pc' = "raw_read"
    /\ UNCHANGED <<args, i, num, color, val, reads, results, device>>
    /\ UNCHANGED link

raw_read ==
    /\ pc = "raw_read"
    /\ \E r \in ReadResults :
         /\ DeviceRead(r)
         /\ log' = Emit(log,
              IF r.ok
              THEN <<Rec("INFO", "Got a response of {} bytes from device:\n{:?}",
                         <<r.num, ReadBuffer(r)>>)>>
              ELSE <<Rec("ERROR", "Failed to read data from device! Reason: {}",
                         r.err)>>)
    /\ pc' = "done"
    /\ UNCHANGED <<args, i, num, color, val, wres, written, okwrites, results,
                   device>>
    /\ UNCHANGED link

----------------------------------------------------------------------------
(* The retry loop of main *)

\* let num: u32 = rng.gen_range(0..16777215), tried on the sample integers
Draws == { n \in DrawSamples : n \in gen_range(0, 16777215) }

\* One pass through the head of `for i in 0..RETRIES` and the choice of the
\* call: the arguments of the call are evaluated, the call is entered.
main_loop ==
    /\ pc = "loop"
    /\ IF i < RETRIES
       THEN IF is_present("Next")
            THEN /\ pc' = "next_write"
                 /\ UNCHANGED <<num, color>>
            ELSE IF is_present("Swap")
            THEN /\ pc' = "swap_write"
                 /\ UNCHANGED <<num, color>>
            ELSE IF is_present("Following")
            THEN /\ pc' = "following_write"
                 /\ color' = value_of("Color")
                 /\ UNCHANGED num
            ELSE /\ pc' = "add_write"
                 /\ IF is_present("Random")
                    THEN \E n \in Draws :
                           /\ num' = n
                           /\ color' = FormatColor(n)
                    ELSE /\ color' = value_of("Color")
                         /\ UNCHANGED num
       ELSE /\ pc' = "done"
            /\ UNCHANGED <<num, color>>
    /\ UNCHANGED <<args, i, val, wres, rres, written, okwrites, reads,
                   results, log, device>>
    /\ UNCHANGED link

\* The call returns v to the loop.
Return(v) ==
    /\ val' = v
    /\ results' = Append(results, v)
    /\ pc' = "check"

\* OpWrite without the `?`: the function goes on to read after a failed write
OpWrite_goon(fn, data) ==
    /\ pc = fn \o "_write"
    /\ \E r \in WriteResults(data) :
         /\ DeviceWrite(data, r)
         /\ pc' = fn \o "_read"
         /\ UNCHANGED <<val, results>>
    /\ UNCHANGED <<args, i, num, color, reads, log, device>>
    /\ UNCHANGED link

\* `device.write(data)?` of the function fn: an Err returns at once.
OpWrite(fn, data) ==
    /\ pc = fn \o "_write"
    /\ \E r \in WriteResults(data) :
         /\ DeviceWrite(data, r)
         /\ IF r.ok
            THEN /\ pc' = fn \o "_read"
                 /\ UNCHANGED <<val, results>>
            ELSE Return(Err(r.err))
    /\ UNCHANGED <<args, i, num, color, reads, log, device>>
    /\ UNCHANGED link

\* OpRead with the `?` on the read dropped: the read error is swallowed
OpRead_swallow(fn) ==
    /\ pc = fn \o "_read"
    /\ \E r \in ReadResults :
         /\ DeviceRead(r)
         /\ Return(OkUnit)
    /\ UNCHANGED <<args, i, num, color, wres, written, okwrites, log, device>>
    /\ UNCHANGED link

\* `device.read(&mut read_buffer)?; Ok(())` of the function fn
OpRead(fn) ==
    /\ pc = fn \o "_read"
    /\ \E r \in ReadResults :
         /\ DeviceRead(r)
         /\ Return(IF r.ok THEN OkUnit ELSE Err(r.err))
    /\ UNCHANGED <<args, i, num, color, wres, written, okwrites, log, device>>
    /\ UNCHANGED link

next_write == OpWrite("next", NextCommand)

next_read == OpRead("next")

swap_write == OpWrite("swap", SwapCommand)

swap_read == OpRead("swap")

following_write ==
    OpWrite("following", FollowingCommand(value_of("Following"), color))

following_read == OpRead("following")

add_write == OpWrite("add", AddCommand(value_of("Add"), color))

add_read == OpRead("add")

\* main_check with the `break` missing
main_check_nobreak ==
    /\ pc = "check"
    /\ log' = Emit(log,
         IF val.ok
         THEN <<Rec("INFO", "Success!", <<>>)>>
         ELSE <<Rec("WARN", "Failed to communicate! Reason: {:?}", val),
                Rec("INFO", "Retrying... {}/{}", <<i + 1, RETRIES>>)>>)
    /\ i' = i + 1
    /\ pc' = "loop"
    /\ UNCHANGED <<args, num, color, val, wres, rres, written, okwrites,
                   reads, results, device>>
    /\ UNCHANGED link

\* main_check that does not step i after a failure
main_check_nocount ==
    /\ pc = "check"
    /\ IF val.ok
       THEN /\ log' = Emit(log, <<Rec("INFO", "Success!", <<>>)>>)
            /\ pc' = "done"
       ELSE /\ log' = Emit(log,
                 <<Rec("WARN", "Failed to communicate! Reason: {:?}", val),
                   Rec("INFO", "Retrying... {}/{}", <<i + 1, RETRIES>>)>>)
            /\ pc' = "loop"
    /\ UNCHANGED <<args, i, num, color, val, wres, rres, written, okwrites,
                   reads, results, device>>
    /\ UNCHANGED link

\* if val.is_ok() { .. break } else { .. } and the step to the next i
main_check ==
    /\ pc = "check"
    /\ IF val.ok
       THEN /\ log' = Emit(log, <<Rec("INFO", "Success!", <<>>)>>)
            /\ pc' = "done"
            /\ UNCHANGED i
       ELSE /\ log' = Emit(log,
                 <<Rec("WARN", "Failed to communicate! Reason: {:?}", val),
                   Rec("INFO", "Retrying... {}/{}", <<i + 1, RETRIES>>)>>)
            /\ i' = i + 1
            /\ pc' = "loop"
    /\ UNCHANGED <<args, num, color, val, wres, rres, written, okwrites,
                   reads, results, device>>
    /\ UNCHANGED link

----------------------------------------------------------------------------

Next ==
    \/ Open
    \/ ClearDTR
    \/ ClearRTS
    \/ Dispatch
    \/ test_write
    \/ test_read
    \/ raw_write
    \/ raw_read
    \/ main_loop
    \/ next_write
    \/ next_read
    \/ swap_write
    \/ swap_read
    \/ following_write
    \/ following_read
    \/ add_write
    \/ add_read
    \/ main_check

Spec == Init /\ [][Next]_vars

\* Every call main makes returns (a blocking write or read returns with a
\* result or a timeout failure), so main always takes its next step.
FairSpec == Spec /\ WF_vars(Next)

----------------------------------------------------------------------------
(* Vocabulary of the properties *)

\* The invocation runs the retry loop: neither test nor raw is selected and
\* one of the four mutating operations is.
Retried ==
    /\ ~args.present["Test"]
    /\ ~args.present["Raw"]
    /\ \/ args.present["Next"]
       \/ args.present["Swap"]
       \/ args.present["Following"]
       \/ args.present["Add"]

\* The invocation runs test or raw.
Probe == args.present["Test"] \/ args.present["Raw"]

\* The first k attempts of the retry loop failed.
FirstFailed(k) == Len(results) >= k /\ \A j \in 1..k : ~results[j].ok

SuccessRecord == Rec("INFO", "Success!", <<>>)

IsRetryRecord(r, k) ==
    r.level = "INFO" /\ r.msg = "Retrying... {}/{}" /\ r.arg = <<k, 5>>

----------------------------------------------------------------------------
(* The retry loop *)

\* C1: for a mutating operation and any k in 0..4, if the first k attempts
\* fail and attempt k+1 succeeds, the loop makes exactly k+1 attempts (k+1
\* results, k+1 writes), nothing is written or read after the successful
\* attempt (every read belongs to an attempt whose write was accepted, so
\* there are as many reads as accepted writes), and the run ends with the
\* record "Success!".
C1_StopAtFirstSuccess ==
    \A k \in 0..4 :
        (FirstFailed(k) /\ Len(results) > k /\ results[k + 1].ok)
        => /\ Retried
           /\ Len(results) = k + 1
           /\ Len(written) = k + 1
           /\ reads = okwrites
           /\ i = k
           /\ pc \in {"check", "done"}
           /\ pc = "done" => /\ Len(log) = 2 * k + 1
                             /\ log[Len(log)] = SuccessRecord

\* C1 witness: two failed attempts, the third succeeded, main has ended.
C1_Witness ==
    /\ pc = "done"
    /\ Len(results) = 3
    /\ ~results[1].ok
    /\ ~results[2].ok
    /\ results[3].ok

\* C2: when every attempt of a mutating operation fails, whether at its
\* write or at its read, the loop makes exactly 5 attempts and never a 6th,
\* and main then ends normally: it does not panic, and all it leaves is the
\* log, whose last record is "Retrying... 5/5".
C2_FiveAttemptsThenEnd ==
    /\ Len(results) <= 5
    /\ Retried => Len(written) <= 5 /\ reads <= 5
    /\ Len(written) > 0 => pc # "panic"
    /\ (Retried /\ pc = "done" /\ \A j \in 1..Len(results) : ~results[j].ok)
       => /\ Len(results) = 5
          /\ Len(written) = 5
          /\ i = 5
          /\ Len(log) = 10
          /\ IsRetryRecord(log[10], 5)
          /\ \A j \in 1..5 : log[2 * j - 1].level = "WARN"
    /\ FirstFailed(5) => /\ pc \in {"check", "loop", "done"}
                          /\ pc = "loop" => i = 5

\* C2 witness: five failed attempts, at a write and at a read, and main has
\* ended.
C2_Witness ==
    /\ pc = "done"
    /\ FirstFailed(5)
    /\ ~wres.ok
    /\ \E j \in 1..4 : results[j] # results[5]

\* C3: a call of next, swap, following or add returns Ok exactly when its
\* write and its read both returned Ok; when the write failed it returns the
\* write's error, when the write was accepted and the read failed it returns
\* the read's error; it returns nothing else (no partial success).
C3_OkIffWriteAndReadOk ==
    pc = "check"
    => /\ val.ok <=> (wres.ok /\ rres.ok)
       /\ ~wres.ok => val = Err(wres.err)
       /\ (wres.ok /\ ~rres.ok) => val = Err(rres.err) /\ rres # NoResult
       /\ val \in {OkUnit} \cup {Err(e) : e \in IoErrors}
       /\ results[Len(results)] = val

\* C3 witness: a call of following whose write was accepted and whose read
\* failed has returned.
C3_Witness ==
    /\ pc = "check"
    /\ args.present["Following"]
    /\ wres.ok
    /\ rres = Err("TimedOut")

----------------------------------------------------------------------------
(* test and raw *)

\* The records that report the outcome of the write and of the read of test
\* and raw at the levels every LevelFilter of the program lets through.
WriteOkReports ==
    { r \in 1..Len(log) :
        /\ log[r].level = "INFO"
        /\ log[r].msg \in {"Writing . . . . . [ OK ]",
                           "Successfully sent {} bytes to the device"} }

WriteFailedReports ==
    { r \in 1..Len(log) :
        /\ log[r].level = "ERROR"
        /\ log[r].msg \in {"Writing . . . . . [ FAILED ]",
                           "Failed to sent data to the device! Reason: {}"} }

ReadOkReports ==
    { r \in 1..Len(log) :
        /\ log[r].level = "INFO"
        /\ log[r].msg \in {"Reading . . . . . [ OK ]",
                           "Got a response of {} bytes from device:\n{:?}"} }

ReadFailedReports ==
    { r \in 1..Len(log) :
        /\ log[r].level = "ERROR"
        /\ log[r].msg \in {"Reading . . . . . [ FAILED ]",
                           "Failed to read data from device! Reason: {}"} }

\* C4: when test or raw has run, whatever the outcomes of its write and of
\* its read: the read was attempted (one write, one read), the log holds one
\* report of the write, Ok or failed as the write was, and after it one
\* report of the read, Ok or failed as the read was, and the call returned
\* normally: main ended without a panic and no error value was produced.
C4_ProbeReportsBoth ==
    (Probe /\ Len(written) > 0 /\ pc \notin {"test_read", "raw_read"})
    => /\ pc = "done"
       /\ Len(written) = 1
       /\ reads = 1
       /\ rres # NoResult
       /\ Cardinality(WriteOkReports) = (IF wres.ok THEN 1 ELSE 0)
       /\ Cardinality(WriteFailedReports) = (IF wres.ok THEN 0 ELSE 1)
       /\ Cardinality(ReadOkReports) = (IF rres.ok THEN 1 ELSE 0)
       /\ Cardinality(ReadFailedReports) = (IF rres.ok THEN 0 ELSE 1)
       /\ \A w \in WriteOkReports \cup WriteFailedReports :
            \A r \in ReadOkReports \cup ReadFailedReports : w < r
       /\ val = NoResult
       /\ results = <<>>

\* C4 witness: test has returned after a failed write and a successful read.
C4_Witness ==
    /\ pc = "done"
    /\ args.present["Test"]
    /\ wres = Err("BrokenPipe")
    /\ rres = Ok(1)

\* C5: an invocation that selects test or raw never enters the retry loop:
\* it makes at most one write and one read, exactly one of each once it has
\* ended after the dispatch, whatever their outcomes; more than one write
\* happens only in an invocation of next, swap, following or add.
C5_ProbesNeverRetried ==
    /\ Probe => /\ pc \in {"open", "dtr", "rts", "dispatch", "panic",
                           "test_write", "test_read", "raw_write",
                           "raw_read", "done"}
                /\ Len(written) <= 1
                /\ reads <= 1
                /\ i = 0
                /\ results = <<>>
                /\ (pc = "done") => Len(written) = 1 /\ reads = 1
    /\ (Len(written) > 1 \/ reads > 1 \/ Len(results) > 0) => Retried

\* C5 witness: raw, given together with swap, has ended after a failed
\* write and a failed read.
C5_Witness ==
    /\ pc = "done"
    /\ args.present["Raw"]
    /\ args.present["Swap"]
    /\ ~wres.ok
    /\ rres = Err("TimedOut")

----------------------------------------------------------------------------
(* Wire forms *)

HexChars ==
    { "0", "1", "2", "3", "4", "5", "6", "7", "8", "9",
      "a", "b", "c", "d", "e", "f", "A", "B", "C", "D", "E", "F" }

\* c is a color of 6 hex digits.
SixHex(c) == Len(c) = 6 /\ \A j \in 1..6 : c[j] \in HexChars

\* The last 6 characters of c.
LastSix(c) == [j \in 1..6 |-> c[Len(c) - 6 + j]]

\* following or add has written in the current attempt, with the color in
\* `color`.
TaskWritten ==
    /\ Retried
    /\ args.present["Following"] \/ args.present["Add"]
    /\ pc \in {"following_read", "add_read", "check", "done"}
    /\ Len(written) > 0

\* C6: when following(t, color) or add(t, color) has written and color is
\* c or '#' + c for 6 hex digits c, the bytes written are exactly
\* 'FLW' + t + ';' + c, respectively 'ADD' + t + ';' + c: no '#' precedes
\* the color on the wire.
C6_ColorWithoutHash ==
    (TaskWritten /\ Len(color) >= 6 /\ SixHex(LastSix(color))
       /\ color \in {LastSix(color), <<"#">> \o LastSix(color)})
    => written[Len(written)] =
         (IF args.present["Following"]
          THEN <<"F", "L", "W">> \o args.value["Following"]
          ELSE <<"A", "D", "D">> \o args.value["Add"])
         \o <<";">> \o LastSix(color)

\* C6 witness: following has written a task with the color '#12Ab9f'.
C6_Witness ==
    /\ pc = "following_read"
    /\ color = <<"#", "1", "2", "A", "b", "9", "f">>
    /\ args.value["Following"] = <<"#", ";">>

\* C7: every write of an invocation of next is exactly 'NXT', of swap
\* exactly 'SWP', of test exactly 'ping' and of raw exactly the payload,
\* with nothing appended, and every attempt makes a single write call: there
\* is one write per returned call, plus one while a call is between its
\* write and its read.
C7_FixedWireForms ==
    /\ \A k \in 1..Len(written) :
         /\ args.present["Test"] => written[k] = <<"p", "i", "n", "g">>
         /\ args.present["Raw"] => written[k] = args.value["Raw"]
         /\ args.present["Next"] => written[k] = <<"N", "X", "T">>
         /\ (args.present["Swap"] /\ ~args.present["Raw"])
            => written[k] = <<"S", "W", "P">>
    /\ Retried =>
         Len(written) = Len(results)
            + (IF pc \in {"next_read", "swap_read", "following_read",
                          "add_read"} THEN 1 ELSE 0)
    /\ Probe => Len(written) <= 1

\* C7 witness: the third attempt of next has written.
C7_Witness ==
    /\ pc = "next_read"
    /\ Len(written) = 3

----------------------------------------------------------------------------
(* Random colors *)

\* main is about to evaluate the color of add in random-color mode.
AboutToDraw ==
    /\ pc = "loop"
    /\ i < 5
    /\ Retried
    /\ args.present["Add"]
    /\ args.present["Random"]

\* C8: in random-color mode every integer drawn lies in [0, 16777215], and
\* every value of that interval that is tried, the upper end 16777215
\* included, can be drawn.
C8_DrawCoversInclusiveRange ==
    /\ num # -1 => num \in 0..16777215
    /\ AboutToDraw =>
         \A n \in { s \in DrawSamples : 0 <= s /\ s <= 16777215 } :
             ENABLED (main_loop /\ num' = n)

\* C9: when random-color mode is requested with following or add, the color
\* handed to the operation is the one drawn at random; the value of Color
\* is handed over only when random mode is not requested.
C9_RandomColorUsed ==
    TaskWritten
    => IF args.present["Random"]
       THEN num # -1 /\ color = <<"#">> \o UpperHex(num)
       ELSE color = args.value["Color"]

\* C10: in random-color mode the color part of a written ADD command, the
\* bytes after 'ADD' + task + ';', is 6 characters long and holds no '#'.
C10_RandomColorSixDigits ==
    (TaskWritten /\ args.present["Add"] /\ args.present["Random"])
    => LET w == written[Len(written)]
           start == 3 + Len(args.value["Add"]) + 1
       IN /\ Len(w) - start = 6
          /\ \A j \in (start + 1)..Len(w) : w[j] # "#"

----------------------------------------------------------------------------
(* Opening the port *)

\* C11: when opening the port fails main aborts at once and attempts no
\* command: in a run whose port is not open nothing is written and nothing
\* is read, and main is at its start or has panicked.  No byte is written
\* or read before the port is open and both DTR and RTS have been cleared,
\* and a run that panicked has written and read nothing.
C11_NoCommandBeforeOpen ==
    /\ ~device.open => /\ pc \in {"open", "panic"}
                       /\ written = <<>>
                       /\ reads = 0
                       /\ log = <<>>
    /\ (Len(written) > 0 \/ reads > 0)
       => device = [open |-> TRUE, dtr |-> "low", rts |-> "low"]
    /\ pc = "panic" => written = <<>> /\ reads = 0 /\ results = <<>>
    /\ pc \notin {"open", "dtr", "rts", "panic"}
       => device = [open |-> TRUE, dtr |-> "low", rts |-> "low"]

\* C11 witness: opening the port failed and main has panicked, in a run
\* that asked for add.
C11_Witness ==
    /\ pc = "panic"
    /\ ~device.open
    /\ args.present["Add"]

----------------------------------------------------------------------------
(* Delivery *)

\* The last attempt's write was accepted and its acknowledgment read failed.
AckLost == wres.ok /\ rres # NoResult /\ ~rres.ok

\* C12: an invocation of a mutating operation writes its command once per
\* attempt, so a run that reports success has written it between 1 and 5
\* times, the device has received it as often as a write was accepted (up
\* to 5 times), and the write that follows an attempt whose write was
\* accepted and whose acknowledgment read failed writes the same command
\* again.
C12_SameCommandWrittenAgain ==
    /\ [](Retried => /\ Len(written) = Len(results)
                          + (IF pc \in {"next_read", "swap_read",
                                        "following_read", "add_read"}
                             THEN 1 ELSE 0)
                     /\ okwrites <= Len(written)
                     /\ okwrites <= 5
                     /\ (pc = "done" /\ val.ok)
                        => Len(written) \in 1..5 /\ okwrites \in 1..5)
    /\ [][(Retried /\ AckLost /\ written' # written)
          => written'[Len(written')] = written[Len(written)]]_vars

\* C13: a mutating operation reports success only when the exchange was
\* complete: the transport accepted every byte of the command and the read
\* returned exactly 1 acknowledgment byte.
C13_SuccessMeansComplete ==
    (Retried /\ pc \in {"check", "done"} /\ val.ok)
    => /\ wres.ok
       /\ wres.num = Len(written[Len(written)])
       /\ rres = Ok(1)

----------------------------------------------------------------------------
(* The retry log *)

\* The last record of the log announces a retry.
RetryLogged ==
    /\ Len(log) > 0
    /\ log[Len(log)].level = "INFO"
    /\ log[Len(log)].msg = "Retrying... {}/{}"

\* C14: whenever the loop has logged 'Retrying... k/5' the next thing main
\* does is a further attempt, which begins with its write, with no other
\* I/O in between; k is the number of the attempt that just failed, and the
\* counts are logged in the order 1, 2, ... without gaps.
C14_RetryFollowsRetryRecord ==
    /\ [](Retried =>
            \A j \in 1..Len(log) :
                log[j].msg = "Retrying... {}/{}"
                => /\ j % 2 = 0
                   /\ log[j].arg = <<j \div 2, 5>>
                   /\ ~results[j \div 2].ok)
    /\ [](RetryLogged => Len(log) = 2 * i /\ i >= 1)
    /\ [][(RetryLogged /\ pc = "loop")
          => /\ pc' \in {"next_write", "swap_write", "following_write",
                         "add_write"}
             /\ written' = written
             /\ reads' = reads]_vars

----------------------------------------------------------------------------
(* Round trip of a random color *)

\* Integers the round trip is tried on, beside the ones main draws: the
\* ends of the range, the values around each digit count, and 0xABCDEF.
RoundTripSamples ==
    { 0, 1, 9, 10, 15, 16, 255, 256, 2748, 4095, 4096, 65535, 65536,
      1048575, 1048576, 11259375, 16777214 }

UpperHexChars ==
    <<"0", "1", "2", "3", "4", "5", "6", "7", "8", "9",
      "A", "B", "C", "D", "E", "F">>

LowerHexChars ==
    <<"0", "1", "2", "3", "4", "5", "6", "7", "8", "9",
      "a", "b", "c", "d", "e", "f">>

\* The value of one hex digit, upper or lower case; -1 for any other text.
HexValue(ch) ==
    IF \E d \in 1..16 : UpperHexChars[d] = ch \/ LowerHexChars[d] = ch
    THEN (CHOOSE d \in 1..16 :
              UpperHexChars[d] = ch \/ LowerHexChars[d] = ch) - 1
    ELSE -1

\* Parsing of a text of hex digits, most significant digit first; -1 when
\* the text is empty or holds anything but hex digits.
RECURSIVE ParseHexDigits(_, _)
ParseHexDigits(s, acc) ==
    IF s = <<>> THEN acc
    ELSE IF HexValue(Head(s)) = -1 THEN -1
    ELSE ParseHexDigits(Tail(s), acc * 16 + HexValue(Head(s)))

ParseHex(s) == IF s = <<>> THEN -1 ELSE ParseHexDigits(s, 0)

\* s padded on the left with '0' to the width w
RECURSIVE PadZeros(_, _)
PadZeros(s, w) == IF Len(s) >= w THEN s ELSE PadZeros(<<"0">> \o s, w)

\* text is '#' and uppercase hex digits that, padded to 6, parse back to
\* n, fewer than 6 of them exactly when n < 0x100000.
RoundTrips(n, text) ==
    /\ Len(text) >= 2
    /\ text[1] = "#"
    /\ \A j \in 2..Len(text) : \E d \in 1..16 : UpperHexChars[d] = text[j]
    /\ ParseHex(PadZeros(Tail(text), 6)) = n
    /\ (Len(text) - 1 < 6) <=> (n < 1048576)

\* C15: for every integer n the random draw can produce, the text
\* '#' + uppercase hex of n, with the '#' removed and the digits padded on
\* the left with zeros to 6, parses as hexadecimal back to n, and the
\* unpadded text has fewer than 6 digits exactly when n < 0x100000.  This
\* holds of the color main has formatted from its draw, and of the format
\* on every sample of the range of the draw (that part does not depend on
\* the state and is evaluated where main starts).
C15_RandomColorRoundTrips ==
    /\ (num # -1 /\ pc \in {"add_write", "add_read", "check"})
       => RoundTrips(num, color)
    /\ pc = "open"
       => \A n \in { s \in RoundTripSamples \cup DrawSamples :
                       s \in gen_range(0, 16777215) } :
              RoundTrips(n, FormatColor(n))

\* C15 witness: main has drawn 0xABC, formatted it as '#ABC', and add has
\* written it.
C15_Witness ==
    /\ pc = "add_read"
    /\ num = 2748
    /\ color = <<"#", "A", "B", "C">>

----------------------------------------------------------------------------
(* Termination *)

\* main has returned or panicked.
Ended == pc \in {"done", "panic"}

\* C16: provided every call returns, every invocation reaches its end; up
\* to there a mutating operation makes at most 5 writes and at most 5
\* reads, and test or raw has made exactly 1 write and 1 read when main
\* returns, whatever the transport answered.
C16_Terminates ==
    /\ <>Ended
    /\ [](Len(written) <= 5 /\ reads <= 5 /\ i <= 5)
    /\ []((Probe /\ pc = "done") => Len(written) = 1 /\ reads = 1)
    /\ []((~Probe /\ ~Retried) => written = <<>> /\ reads = 0)

\* C16 witness: a mutating operation has ended after 5 writes and 5 reads.
C16_Witness ==
    /\ pc = "done"
    /\ Len(written) = 5
    /\ reads = 5

----------------------------------------------------------------------------
(* Order of write and read within an attempt *)

\* A call of next, swap, following or add is between its write and its read.
BetweenWriteAndRead ==
    pc \in {"next_read", "swap_read", "following_read", "add_read"}

\* C17: in the retry loop every attempt begins with a write, a read is made
\* only after the write of the same attempt returned Ok, and a failed write
\* ends the attempt without a read: every accepted write is followed by
\* exactly one read, so the reads never outnumber the accepted writes.
C17_WriteThenRead ==
    Retried
    => /\ reads <= okwrites
       /\ reads = okwrites - (IF BetweenWriteAndRead THEN 1 ELSE 0)
       /\ Len(written) = Len(results) + (IF BetweenWriteAndRead THEN 1 ELSE 0)
       /\ BetweenWriteAndRead => wres.ok /\ rres = NoResult
       /\ (pc = "check" /\ ~wres.ok) => rres = NoResult
       /\ rres # NoResult => wres.ok

\* C17 witness: the fourth attempt ended at its failed write, after two
\* reads in the earlier attempts.
C17_Witness ==
    /\ Retried
    /\ pc = "check"
    /\ ~wres.ok
    /\ Len(written) = 4
    /\ reads = 2

----------------------------------------------------------------------------
(* The command over the attempts *)

\* C18: all attempts of one invocation write the same bytes: the command
\* written in attempt k+1 is the one written in attempt 1, also in
\* random-color mode.
C18_SameCommandEveryAttempt ==
    Retried => \A k \in 1..Len(written) : written[k] = written[1]

----------------------------------------------------------------------------
(* The device as a process of its own *)

\* The retry loop with the device at the other end of the line: the device
\* receives every command that was written in full, answers each with one
\* acknowledgment byte at a time of its own, and the byte waits in the
\* receive buffer of the port until a read takes it.  The port is the one
\* main opened; nothing in main empties the receive buffer.

\* `device.write(data)?` of the function fn; a command accepted in full
\* reaches the device.
LinkWrite(fn, data) ==
    /\ pc = fn \o "_write"
    /\ \E r \in WriteResults(data) :
         /\ DeviceWrite(data, r)
         /\ pending' = IF r.ok /\ r.num = Len(data)
                       THEN Append(pending, Len(written) + 1)
                       ELSE pending
         /\ IF r.ok
            THEN /\ pc' = fn \o "_read"
                 /\ UNCHANGED <<val, results>>
            ELSE Return(Err(r.err))
    /\ UNCHANGED <<args, i, num, color, reads, log, device, rxbuf, ackfor>>

\* `device.read(&mut read_buffer)?; Ok(())` of the function fn: the read
\* takes the first byte that waits in the receive buffer, and times out
\* when none has arrived.
LinkRead(fn) ==
    /\ pc = fn \o "_read"
    /\ IF rxbuf # <<>>
       THEN /\ DeviceRead(Ok(1))
            /\ ackfor' = Head(rxbuf)
            /\ rxbuf' = Tail(rxbuf)
            /\ Return(OkUnit)
       ELSE /\ DeviceRead(Err("TimedOut"))
            /\ Return(Err("TimedOut"))
            /\ UNCHANGED <<rxbuf, ackfor>>
    /\ UNCHANGED <<args, i, num, color, wres, written, okwrites, log, device,
                   pending>>

\* The device answers the oldest command it has not answered yet.
device_answer ==
    /\ pending # <<>>
    /\ rxbuf' = Append(rxbuf, Head(pending))
    /\ pending' = Tail(pending)
    /\ UNCHANGED <<args, pc, i, num, color, val, wres, rres, written,
                   okwrites, reads, results, log, device, ackfor>>

next_link_write == LinkWrite("next", NextCommand)

next_link_read == LinkRead("next")

swap_link_write == LinkWrite("swap", SwapCommand)

swap_link_read == LinkRead("swap")

following_link_write ==
    LinkWrite("following", FollowingCommand(value_of("Following"), color))

following_link_read == LinkRead("following")

add_link_write == LinkWrite("add", AddCommand(value_of("Add"), color))

add_link_read == LinkRead("add")

\* The invocations of a mutating operation with the default color.
InitLink ==
    /\ Init
    /\ Retried
    /\ ~args.present["Debug"]
    /\ ~args.present["Color"]
    /\ ~args.present["Random"]

NextLink ==
    \/ Open
    \/ ClearDTR
    \/ ClearRTS
    \/ Dispatch
    \/ main_loop
    \/ next_link_write
    \/ next_link_read
    \/ swap_link_write
    \/ swap_link_read
    \/ following_link_write
    \/ following_link_read
    \/ add_link_write
    \/ add_link_read
    \/ main_check
    \/ device_answer

SpecLink == InitLink /\ [][NextLink]_vars

\* C19: the acknowledgment byte that makes an attempt succeed answers the
\* command written in that attempt, never an earlier one: when a call has
\* returned Ok the byte its read took was produced for the last write, so
\* the device has processed the last command written.  (Stated for the
\* attempts whose command was accepted in full, which the device received.)
C19_AckAnswersThisAttempt ==
    (pc \in {"check", "done"} /\ val.ok
       /\ wres.num = Len(written[Len(written)]))
    => /\ ackfor = Len(written)
       /\ \A p \in 1..Len(pending) : pending[p] # Len(written)

====
